---- MODULE Spec2Model ----
(***************************************************************************)
(* A model of conrod's `List` widget (src/widget/list.rs): the per-frame   *)
(* layout pass `List::update`, which computes the range of items to        *)
(* instantiate and grows the persistent pool of item `NodeIndex`s, and the *)
(* `Items::next` cursor that hands the items out one at a time.            *)
(*                                                                         *)
(* Scalars (f64) are modelled by integers: every length is a whole number  *)
(* of units, `x / item_h` followed by `.floor()` is floor division, and    *)
(* `(x / item_h + 1.0).floor()` is floor division plus one.  The cast      *)
(* `as usize` of a float saturates (a negative value gives 0).             *)
(***************************************************************************)
EXTENDS Integers, Sequences, FiniteSets, TLC

VARIABLES
    state,            \* the widget's persistent `State`
    next_node_index,  \* the Ui's generator of unique `NodeIndex`s
    args,             \* the `List` being updated and its `UpdateArgs`
    scroll_trigger,   \* the scroll trigger `Rectangle` as set this frame
    item_idx_range,   \* the index range `update` computed this frame
    items,            \* the `Items` cursor returned by `update`
    scrollbar,        \* the `Option<Scrollbar>` returned by `update`
    pc,               \* "new", "frame" (update has returned) or "panicked"
    yielded,          \* history: the `Item`s `next` returned this frame
    returned_none,    \* history: some call of `next` this frame returned None
    last_frame,       \* history: the previous frame's range length and the
                      \* widget_idx of each Item it yielded
    max_range_len,    \* history: the largest range length of any frame so far
    first_of,         \* history: NodeIndex -> the logical index and the position
                      \* of its first yield (recorded by SpecReuse only)
    placed            \* the item widgets `Item::set` has set this frame, in order

vars == <<state, next_node_index, args, scroll_trigger, item_idx_range, items,
          scrollbar, pc, yielded, returned_none, last_frame, max_range_len, first_of,
          placed>>

----------------------------------------------------------------------------
(* Bounds of the model.                                                    *)

\* Spec and SpecReuse: several frames of one list, small geometry.
MaxItems == 3
MaxHidden == 1

\* SpecWindow: one frame, wide geometry.
WinMaxItems == 5
WinMaxItemH == 4
WinMaxRectH == 9
WinMaxHidden == 12
WinMinHidden == 2

----------------------------------------------------------------------------
(* Option<T>, std::ops::Range<usize> and the numeric conversions.          *)

None == <<>>
Some(x) == <<x>>
IsSome(o) == o # <<>>
Unwrap(o) == o[1]

Min(x, y) == IF x < y THEN x ELSE y
Max(x, y) == IF x > y THEN x ELSE y

\* `(x / y).floor()` on Scalars.
Floor(x, y) == x \div y

\* `x as usize` for a float x: saturating.
AsUsize(x) == IF x < 0 THEN 0 ELSE x

Range(s, e) == [start |-> s, end |-> e]

\* `Range<usize>::len()`: empty when start >= end.
RangeLen(r) == IF r.start < r.end THEN r.end - r.start ELSE 0

\* `Vec::get(i)` with a 0-based i.
Get(v, i) == IF i < Len(v) THEN Some(v[i + 1]) ELSE None

----------------------------------------------------------------------------
(* The Ui's collaborators.                                                 *)

\* `widget::IndexSlot::get(&mut ui)`: the slot's index, generated on first use.
IndexSlotGet(slot, next) ==
    IF IsSome(slot)
    THEN [idx |-> Unwrap(slot), slot |-> slot, next |-> next]
    ELSE [idx |-> next, slot |-> Some(next), next |-> next + 1]

\* n calls of `ui.new_unique_node_index()`, starting with the generator at next.
NewUniqueNodeIndices(n, next) == [k \in 1..n |-> next + k - 1]

\* `ui.rect_of(scroll_trigger_idx)`: the top of the trigger's rectangle, when the
\* Ui can resolve it.
RectOfTrigger(a) == IF a.trigger_resolved THEN Some(a.trigger_top) ELSE None

----------------------------------------------------------------------------
(* List::update, piece by piece.                                           *)

\* The assertion on the item height.
ItemHeightOk(item_h) == item_h > 0

IsScrollable(maybe_y_scroll_state) ==
    IF IsSome(maybe_y_scroll_state) THEN Unwrap(maybe_y_scroll_state) < 0 ELSE FALSE

FallbackScrollbarW == 10

ScrollbarW(style_scrollbar_width, theme_thickness) ==
    IF IsSome(style_scrollbar_width) THEN Unwrap(style_scrollbar_width)
    ELSE IF IsSome(theme_thickness) THEN Unwrap(theme_thickness)
    ELSE FallbackScrollbarW

\* Mutant: the scrollbar's width is reserved whenever it is next to the items.
ItemWNextTo(is_scrollable, scrollbar_position, rect_w, scrollbar_w) ==
    IF scrollbar_position = "NextTo"
    THEN rect_w - scrollbar_w
    ELSE rect_w

ItemW(is_scrollable, scrollbar_position, rect_w, scrollbar_w) ==
    IF is_scrollable /\ scrollbar_position = "NextTo"
    THEN rect_w - scrollbar_w
    ELSE rect_w

TotalItemH(num_items, item_h) == num_items * item_h

\* Mutant: the range ends one item early.
AllItemsButLast(num_items) == [range |-> Range(0, num_items - 1), margin |-> 0]

\* ItemInstantiation::All.
AllItems(num_items) == [range |-> Range(0, num_items), margin |-> 0]

HiddenRangeLength(trigger_top, rect_top) == trigger_top - rect_top

\* Mutant: the `+ 1.0` is forgotten.
NumVisibleItemsNoOverscan(rect_h, item_h) == AsUsize(Floor(rect_h, item_h))

NumVisibleItems(rect_h, item_h) == AsUsize(Floor(rect_h, item_h) + 1)

FirstVisibleItemIdx(hidden_range_length, item_h) ==
    AsUsize(Floor(hidden_range_length, item_h))

EndOfVisibleIdxRange(first_visible_item_idx, num_visible_items, num_items) ==
    Min(first_visible_item_idx + num_visible_items, num_items)

\* Mutant: the first item's margin is the hidden length itself.
OnlyVisibleItemsRawMargin(num_items, item_h, rect_h, rect_top, trigger_top) ==
    LET hidden_range_length == HiddenRangeLength(trigger_top, rect_top)
        num_visible_items == NumVisibleItems(rect_h, item_h)
        first_visible_item_idx == FirstVisibleItemIdx(hidden_range_length, item_h)
        end_of_visible_idx_range ==
            EndOfVisibleIdxRange(first_visible_item_idx, num_visible_items, num_items)
    IN  [range |-> Range(first_visible_item_idx, end_of_visible_idx_range),
         margin |-> hidden_range_length]

\* ItemInstantiation::OnlyVisible.
OnlyVisibleItems(num_items, item_h, rect_h, rect_top, trigger_top) ==
    LET hidden_range_length == HiddenRangeLength(trigger_top, rect_top)
        num_visible_items == NumVisibleItems(rect_h, item_h)
        first_visible_item_idx == FirstVisibleItemIdx(hidden_range_length, item_h)
        first_visible_item_margin == first_visible_item_idx * item_h
        end_of_visible_idx_range ==
            EndOfVisibleIdxRange(first_visible_item_idx, num_visible_items, num_items)
    IN  [range |-> Range(first_visible_item_idx, end_of_visible_idx_range),
         margin |-> first_visible_item_margin]

\* The index range of the items to instantiate and the first item's margin.
VisibleWindow(a) ==
    IF a.item_instantiation = "All"
    THEN AllItems(a.num_items)
    ELSE OnlyVisibleItems(a.num_items, a.item_h, a.rect_h, a.rect_top,
                          Unwrap(RectOfTrigger(a)))

\* Mutant: one fresh index is taken and repeated for the whole extension.
EnsureIndicesRepeated(item_indices, range_len, next) ==
    LET num_indices == Len(item_indices) IN
    IF num_indices < range_len
    THEN [item_indices |->
              item_indices \o [k \in 1..(range_len - num_indices) |-> next],
          next |-> next + 1]
    ELSE [item_indices |-> item_indices, next |-> next]

\* Mutant: the extension is one index short.
EnsureIndicesOneShort(item_indices, range_len, next) ==
    LET num_indices == Len(item_indices) IN
    IF num_indices < range_len
    THEN [item_indices |->
              item_indices \o NewUniqueNodeIndices(range_len - num_indices - 1, next),
          next |-> next + (range_len - num_indices - 1)]
    ELSE [item_indices |-> item_indices, next |-> next]

\* Mutant: a vector that is too short is rebuilt from fresh indices.
EnsureIndicesRebuilt(item_indices, range_len, next) ==
    LET num_indices == Len(item_indices) IN
    IF num_indices < range_len
    THEN [item_indices |-> NewUniqueNodeIndices(range_len, next),
          next |-> next + range_len]
    ELSE [item_indices |-> item_indices, next |-> next]

\* "Ensure there are at least as many indices as there are visible items."
EnsureIndices(item_indices, range_len, next) ==
    LET num_indices == Len(item_indices) IN
    IF num_indices < range_len
    THEN [item_indices |->
              item_indices \o NewUniqueNodeIndices(range_len - num_indices, next),
          next |-> next + (range_len - num_indices)]
    ELSE [item_indices |-> item_indices, next |-> next]

\* Mutant: the cursor into the indices starts at the range's first index.
NewItemsAtRangeStart(range, scroll_trigger_idx, first_item_margin, item_w, item_h) ==
    [item_indices |-> range,
     next_item_indices_index |-> range.start,
     last_idx |-> None,
     scroll_trigger_idx |-> scroll_trigger_idx,
     first_item_margin |-> first_item_margin,
     item_w |-> item_w,
     item_h |-> item_h]

NewItems(range, scroll_trigger_idx, first_item_margin, item_w, item_h) ==
    [item_indices |-> range,
     next_item_indices_index |-> 0,
     last_idx |-> None,
     scroll_trigger_idx |-> scroll_trigger_idx,
     first_item_margin |-> first_item_margin,
     item_w |-> item_w,
     item_h |-> item_h]

\* Mutant: the two arms of the match are exchanged.
AutoHideNextTo(scrollbar_position) == scrollbar_position = "NextTo"

AutoHide(scrollbar_position) == scrollbar_position = "OnTop"

\* Mutant: the scrollbar's index is a fresh one in every frame.
ScrollbarIdxFresh(scrollbar_position, scrollbar_idx, next) ==
    IF scrollbar_position = "None"
    THEN [idx |-> 0, slot |-> scrollbar_idx, next |-> next]
    ELSE [idx |-> next, slot |-> Some(next), next |-> next + 1]

\* `None => return (items, None)`: the scrollbar's slot is read only when a
\* scrollbar position is configured.
ScrollbarIdx(scrollbar_position, scrollbar_idx, next) ==
    IF scrollbar_position = "None"
    THEN [idx |-> 0, slot |-> scrollbar_idx, next |-> next]
    ELSE IndexSlotGet(scrollbar_idx, next)

\* Mutant: the scrollbar floats when it is on top of the items.
NewScrollbarFloatingOnTop(idx, prev_floating, scrollbar_w, auto_hide) ==
    [idx |-> idx, floating |-> auto_hide,
     thickness |-> scrollbar_w, auto_hide |-> auto_hide]

NewScrollbar(idx, prev_floating, scrollbar_w, auto_hide) ==
    [idx |-> idx, floating |-> prev_floating,
     thickness |-> scrollbar_w, auto_hide |-> auto_hide]

\* Mutant: the assertion comes after the trigger has been set.
UpdatePanicAfterTrigger(a) ==
    /\ pc # "panicked"
    /\ ~ItemHeightOk(a.item_h)
    /\ LET trigger == IndexSlotGet(state.scroll_trigger_idx, next_node_index)
       IN  /\ state' = [state EXCEPT !.scroll_trigger_idx = trigger.slot]
           /\ next_node_index' = trigger.next
           /\ scroll_trigger' = Some([idx |-> trigger.idx, w |-> a.rect_w,
                                      h |-> TotalItemH(a.num_items, a.item_h)])
    /\ pc' = "panicked"
    /\ args' = a
    /\ UNCHANGED <<item_idx_range, items, scrollbar, yielded, returned_none,
                   last_frame, max_range_len, first_of, placed>>

\* The assertion fails: the layout pass panics before it touches anything.
UpdatePanic(a) ==
    /\ pc # "panicked"
    /\ ~ItemHeightOk(a.item_h)
    /\ pc' = "panicked"
    /\ args' = a
    /\ UNCHANGED <<state, next_node_index, scroll_trigger, item_idx_range, items,
                   scrollbar, yielded, returned_none, last_frame, max_range_len,
                   first_of, placed>>

\* Whether `update` gets past `ui.rect_of(scroll_trigger_idx).unwrap()`: only
\* ItemInstantiation::OnlyVisible reads the trigger's rectangle.
TriggerRectOk(a) == a.item_instantiation = "All" \/ IsSome(RectOfTrigger(a))

\* The trigger's rectangle cannot be resolved: the layout pass has taken the
\* trigger's index from its slot and set the trigger when the unwrap panics.
UpdateUnwrapPanic(a) ==
    /\ pc # "panicked"
    /\ ItemHeightOk(a.item_h)
    /\ ~TriggerRectOk(a)
    /\ LET trigger == IndexSlotGet(state.scroll_trigger_idx, next_node_index)
       IN  /\ state' = [state EXCEPT !.scroll_trigger_idx = trigger.slot]
           /\ next_node_index' = trigger.next
           /\ scroll_trigger' = Some([idx |-> trigger.idx, w |-> a.rect_w,
                                      h |-> TotalItemH(a.num_items, a.item_h)])
    /\ pc' = "panicked"
    /\ args' = a
    /\ UNCHANGED <<item_idx_range, items, scrollbar, yielded, returned_none,
                   last_frame, max_range_len, first_of, placed>>

\* One whole layout pass.
Update(a) ==
    /\ pc # "panicked"
    /\ ItemHeightOk(a.item_h)
    /\ TriggerRectOk(a)
    /\ LET is_scrollable == IsScrollable(a.maybe_y_scroll_state)
           scrollbar_w == ScrollbarW(a.style_scrollbar_width, a.theme_thickness)
           item_w == ItemW(is_scrollable, a.scrollbar_position, a.rect_w, scrollbar_w)
           total_item_h == TotalItemH(a.num_items, a.item_h)
           trigger == IndexSlotGet(state.scroll_trigger_idx, next_node_index)
           win == VisibleWindow(a)
           ensured == EnsureIndices(state.item_indices, RangeLen(win.range), trigger.next)
           bar == ScrollbarIdx(a.scrollbar_position, state.scrollbar_idx, ensured.next)
       IN  /\ state' = [scroll_trigger_idx |-> trigger.slot,
                        item_indices |-> ensured.item_indices,
                        scrollbar_idx |-> bar.slot]
           /\ next_node_index' = bar.next
           /\ scroll_trigger' = Some([idx |-> trigger.idx, w |-> a.rect_w,
                                      h |-> total_item_h])
           /\ item_idx_range' = win.range
           /\ items' = NewItems(win.range, trigger.idx, win.margin, item_w, a.item_h)
           /\ scrollbar' = IF a.scrollbar_position = "None"
                           THEN None
                           ELSE Some(NewScrollbar(bar.idx, a.prev_floating, scrollbar_w,
                                                  AutoHide(a.scrollbar_position)))
    /\ args' = a
    /\ pc' = "frame"
    /\ yielded' = <<>>
    /\ returned_none' = FALSE
    /\ last_frame' = [range_len |-> RangeLen(item_idx_range),
                      idxs |-> [k \in 1..Len(yielded) |-> yielded[k].widget_idx]]
    /\ max_range_len' = Max(max_range_len, RangeLen(VisibleWindow(a).range))
    /\ placed' = <<>>
    /\ UNCHANGED first_of

----------------------------------------------------------------------------
(* Items::next.                                                            *)

\* Mutant: last_idx is read after it was set to this item's index.
NewItemAfterAdvance(i, node_index, c) ==
    [i |-> i,
     last_idx |-> Some(node_index),
     widget_idx |-> node_index,
     scroll_trigger_idx |-> c.scroll_trigger_idx,
     w |-> c.item_w,
     h |-> c.item_h,
     first_item_margin |-> c.first_item_margin]

NewItem(i, node_index, c) ==
    [i |-> i,
     last_idx |-> c.last_idx,
     widget_idx |-> node_index,
     scroll_trigger_idx |-> c.scroll_trigger_idx,
     w |-> c.item_w,
     h |-> c.item_h,
     first_item_margin |-> c.first_item_margin]

\* Mutant: the indices are taken from the back of the vector.
NextNodeIndexFromBack(item_indices, next_item_indices_index) ==
    IF next_item_indices_index < Len(item_indices)
    THEN Some(item_indices[Len(item_indices) - next_item_indices_index])
    ELSE None

\* The slot of the list's State that the cursor reads next.
NextNodeIndex(item_indices, next_item_indices_index) ==
    Get(item_indices, next_item_indices_index)

\* Mutant: the index is returned after it was advanced.
RangeNextAdvanced(r) ==
    IF r.start < r.end
    THEN [i |-> Some(r.start + 1), range |-> Range(r.start + 1, r.end)]
    ELSE [i |-> None, range |-> r]

\* `Range<usize>::next()`: the next index and the range that is left.
RangeNext(r) ==
    IF r.start < r.end
    THEN [i |-> Some(r.start), range |-> Range(r.start + 1, r.end)]
    ELSE [i |-> None, range |-> r]

\* One call of `next`, but for the cross-frame history first_of.
ItemsNextCall ==
    /\ pc = "frame"
    /\ LET node_index == NextNodeIndex(state.item_indices, items.next_item_indices_index)
           n == RangeNext(items.item_indices)
       IN  IF ~IsSome(node_index)
           THEN \* no index is left: None, and the cursor is as it was
                /\ returned_none' = TRUE
                /\ UNCHANGED <<items, yielded>>
           ELSE IF IsSome(n.i)
           THEN \* (Some(i), Some(node_index))
                /\ items' = [items EXCEPT
                       !.next_item_indices_index = @ + 1,
                       !.item_indices = n.range,
                       !.last_idx = Some(Unwrap(node_index))]
                /\ yielded' = Append(yielded, NewItem(Unwrap(n.i), Unwrap(node_index), items))
                /\ UNCHANGED returned_none
           ELSE \* the range is exhausted: None, but the index was consumed
                /\ items' = [items EXCEPT
                       !.next_item_indices_index = @ + 1,
                       !.item_indices = n.range]
                /\ returned_none' = TRUE
                /\ UNCHANGED yielded
    /\ UNCHANGED <<state, next_node_index, args, scroll_trigger, item_idx_range,
                   scrollbar, pc, last_frame, max_range_len, placed>>

ItemsNext == ItemsNextCall /\ UNCHANGED first_of

----------------------------------------------------------------------------
(* Item::set.  Heights are measured upwards, as conrod's y axis is: a      *)
(* widget's bottom is its top less its height.                             *)

\* `mid_top_with_margin_on(other, margin)`: the top is `margin` below the top of
\* the other widget.
MidTopWithMarginOn(other_top, margin) == other_top - margin

\* `down_from(other, margin)`: the top is `margin` below the bottom of the other
\* widget.
DownFrom(other, margin) == (other.top - other.h) - margin

\* The rectangle that the widget at `idx` was given in this frame.
RectOf(idx, set_widgets) ==
    CHOOSE r \in {set_widgets[k] : k \in 1..Len(set_widgets)} : r.idx = idx

\* Mutant: the item is set one height below its predecessor's bottom.
ItemTopWithGap(item, trigger_top, set_widgets) ==
    IF item.last_idx = None
    THEN MidTopWithMarginOn(trigger_top, item.first_item_margin)
    ELSE DownFrom(RectOf(Unwrap(item.last_idx), set_widgets), item.h)

\* The top that the positioning of `Item::set` gives the item's widget.
ItemTop(item, trigger_top, set_widgets) ==
    IF item.last_idx = None
    THEN MidTopWithMarginOn(trigger_top, item.first_item_margin)
    ELSE DownFrom(RectOf(Unwrap(item.last_idx), set_widgets), 0)

\* The caller sets the yielded items in the order of their yield: the next
\* item that has not been set is given its dimensions, position and parent.
ItemSet ==
    /\ pc = "frame"
    /\ Len(placed) < Len(yielded)
    /\ LET item == yielded[Len(placed) + 1]
       IN  placed' = Append(placed,
                        [idx |-> item.widget_idx,
                         w |-> item.w,
                         h |-> item.h,
                         top |-> ItemTop(item, args.trigger_top, placed),
                         parent |-> item.scroll_trigger_idx])
    /\ UNCHANGED <<state, next_node_index, args, scroll_trigger, item_idx_range,
                   items, scrollbar, pc, yielded, returned_none, last_frame,
                   max_range_len, first_of>>

\* The history of first yields, after a call that took yielded to yielded_after.
RecordFirst(first, yielded_after) ==
    LET k == Len(yielded_after)
        item == yielded_after[k]
    IN  IF item.widget_idx \in DOMAIN first
        THEN first
        ELSE first @@ (item.widget_idx :> [i |-> item.i, pos |-> k])

ItemsNextRecorded ==
    /\ ItemsNextCall
    /\ first_of' = IF Len(yielded') > Len(yielded)
                   THEN RecordFirst(first_of, yielded')
                   ELSE first_of

----------------------------------------------------------------------------
(* The inputs of a frame: the List the caller builds and the UpdateArgs.   *)

\* In order: num_items, item_h, item_instantiation, scrollbar_position, rect.h(),
\* rect.top(), the trigger's top, prev.maybe_y_scroll_state (its magnitude),
\* prev.maybe_floating.is_some(), style.scrollbar_width.  The theme gives no
\* scrollbar thickness and the Ui resolves the trigger's rectangle.
Inputs(ns, hs, modes, positions, rect_hs, rect_tops, trigger_tops, ys, fs, ws) ==
    [num_items : ns,
     item_h : hs,
     item_instantiation : modes,
     scrollbar_position : positions,
     rect_w : {100},
     rect_h : rect_hs,
     rect_top : rect_tops,
     trigger_top : trigger_tops,
     maybe_y_scroll_state : ys,
     prev_floating : fs,
     style_scrollbar_width : ws,
     theme_thickness : {None},
     trigger_resolved : {TRUE}]

\* Frames of Spec: every small geometry (items one unit high, a viewport that
\* shows one or two of them) without a scrollbar, every number of items with
\* all of them instantiated, a one-item list with each scrollbar position, and
\* the item heights that are not positive, zero and negative.
FrameInputs ==
    Inputs(0..MaxItems, {1}, {"OnlyVisible"}, {"None"}, {0, 1}, {0},
           0..MaxHidden, {None}, {FALSE}, {None})
    \cup Inputs(0..MaxItems, {1}, {"All"}, {"None"}, {1}, {0}, {0}, {None},
                {FALSE}, {None})
    \cup Inputs({1}, {1}, {"All"}, {"NextTo", "OnTop"}, {1}, {0}, {0}, {None},
                {FALSE}, {None})
    \cup Inputs({1}, {0}, {"OnlyVisible"}, {"None"}, {1}, {0}, {0}, {None},
                {FALSE}, {None})
    \cup Inputs({1}, {0 - 1}, {"All"}, {"None"}, {1}, {0}, {0}, {None},
                {FALSE}, {None})

\* Frames of SpecReuse: the visible window at every small offset, and all items.
ReuseInputs ==
    Inputs(0..MaxItems, {1}, {"OnlyVisible"}, {"None"}, {1}, {0},
           0..MaxHidden, {None}, {FALSE}, {None})
    \cup Inputs({MaxItems}, {1}, {"All"}, {"None"}, {1}, {0}, {0}, {None},
                {FALSE}, {None})

\* The two concrete scenarios of the specification's testable properties.
ScenarioOnlyVisible ==
    [num_items |-> 1000, item_h |-> 20, item_instantiation |-> "OnlyVisible",
     scrollbar_position |-> "None", rect_w |-> 100, rect_h |-> 200, rect_top |-> 0,
     trigger_top |-> 140, maybe_y_scroll_state |-> None, prev_floating |-> FALSE,
     style_scrollbar_width |-> None, theme_thickness |-> None,
     trigger_resolved |-> TRUE]

ScenarioAll ==
    [num_items |-> 5, item_h |-> 20, item_instantiation |-> "All",
     scrollbar_position |-> "None", rect_w |-> 100, rect_h |-> 200, rect_top |-> 0,
     trigger_top |-> 140, maybe_y_scroll_state |-> None, prev_floating |-> FALSE,
     style_scrollbar_width |-> None, theme_thickness |-> None,
     trigger_resolved |-> TRUE]

\* Frames in which the Ui cannot resolve the trigger's rectangle, in both modes.
UnresolvedInputs ==
    {[a EXCEPT !.trigger_resolved = FALSE] :
        a \in Inputs(0..2, {1}, {"OnlyVisible", "All"}, {"None"}, {1}, {0}, {0},
                     {None}, {FALSE}, {None})}

\* Frames of a two-item list with every scrollbar position, scroll state
\* (none, a negative, zero and positive magnitude of the offset bounds),
\* floating state of the list, style width and theme thickness.
ScrollbarInputs ==
    [num_items : {2},
     item_h : {1},
     item_instantiation : {"OnlyVisible", "All"},
     scrollbar_position : {"None", "NextTo", "OnTop"},
     rect_w : {100},
     rect_h : {1},
     rect_top : {0},
     trigger_top : {0},
     maybe_y_scroll_state : {None, Some(0 - 1), Some(0), Some(1)},
     prev_floating : BOOLEAN,
     style_scrollbar_width : {None, Some(8)},
     theme_thickness : {None, Some(6)},
     trigger_resolved : {TRUE}]

\* The frame of SpecWindow: every geometry within the wide bounds, the trigger's
\* top below, at or above the viewport's, in both modes.
WindowInputs ==
    Inputs(0..WinMaxItems, 0..WinMaxItemH, {"OnlyVisible", "All"}, {"None"},
           0..WinMaxRectH, {0, 1}, (0 - WinMinHidden)..WinMaxHidden, {None}, {FALSE},
           {None})
    \cup {ScenarioOnlyVisible, ScenarioAll}
    \cup UnresolvedInputs
    \cup ScrollbarInputs

Init ==
    /\ state = [scroll_trigger_idx |-> None, item_indices |-> <<>>,
                scrollbar_idx |-> None]
    /\ next_node_index = 1
    /\ args = None
    /\ scroll_trigger = None
    /\ item_idx_range = Range(0, 0)
    /\ items = None
    /\ scrollbar = None
    /\ pc = "new"
    /\ yielded = <<>>
    /\ returned_none = FALSE
    /\ last_frame = [range_len |-> 0, idxs |-> <<>>]
    /\ max_range_len = 0
    /\ first_of = <<>>
    /\ placed = <<>>

\* Several frames of one list.
Frame == \E a \in FrameInputs : Update(a)

FramePanic == \E a \in FrameInputs : UpdatePanic(a)

Next == Frame \/ FramePanic \/ ItemsNext

Spec == Init /\ [][Next]_vars

\* Several frames of one list, with the history of first yields.
ReuseFrame == \E a \in ReuseInputs : Update(a)

NextReuse == ReuseFrame \/ ItemsNextRecorded

SpecReuse == Init /\ [][NextReuse]_vars

\* The first frame of a list, over the wide geometry.
WindowFrame == pc = "new" /\ \E a \in WindowInputs : Update(a)

WindowFramePanic == pc = "new" /\ \E a \in WindowInputs : UpdatePanic(a)

WindowFrameUnwrapPanic == pc = "new" /\ \E a \in WindowInputs : UpdateUnwrapPanic(a)

NextWindow == WindowFrame \/ WindowFramePanic \/ WindowFrameUnwrapPanic \/ ItemsNext

SpecWindow == Init /\ [][NextWindow]_vars

\* The first frame of a list, with the caller setting the items it is given.
NextPlace == NextWindow \/ ItemSet

SpecPlace == Init /\ [][NextPlace]_vars

----------------------------------------------------------------------------
(* The claims.                                                             *)

OnlyVisibleFrame == pc = "frame" /\ args.item_instantiation = "OnlyVisible"

AllFrame == pc = "frame" /\ args.item_instantiation = "All"

IsPrefix(s, u) == Len(s) <= Len(u) /\ \A k \in 1..Len(s) : s[k] = u[k]

\* C1 (as stated): in mode OnlyVisible, whatever the item count, the item height,
\* the viewport height and the offset between the trigger's top and the
\* viewport's top, 0 <= range.start <= range.end <= item_count and
\* range.end - range.start <= floor(viewport height / item height) + 1.
C1_RangeWithinBounds ==
    OnlyVisibleFrame =>
        /\ 0 <= item_idx_range.start
        /\ item_idx_range.start <= item_idx_range.end
        /\ item_idx_range.end <= args.num_items
        /\ item_idx_range.end - item_idx_range.start
               <= (args.rect_h \div args.item_h) + 1

\* C2: in mode OnlyVisible, first_visible_index is floor(hidden_extent /
\* item_height) clamped to >= 0, top_margin is first_visible_index * item_height
\* and the range is [first_visible_index, min(first_visible_index +
\* floor(viewport_height / item_height + 1), item_count)); 1000 items of height
\* 20 in a viewport of height 200 with 140 hidden give 7, 140 and [7, 18).
C2_OnlyVisibleWindow ==
    OnlyVisibleFrame =>
        LET hidden_extent == args.trigger_top - args.rect_top
            quotient == hidden_extent \div args.item_h
            first_visible_index == IF quotient >= 0 THEN quotient ELSE 0
            visible_count == (args.rect_h \div args.item_h) + 1
            range_end == IF first_visible_index + visible_count <= args.num_items
                         THEN first_visible_index + visible_count
                         ELSE args.num_items
        IN  /\ item_idx_range.start = first_visible_index
            /\ item_idx_range.end = range_end
            /\ items.first_item_margin = first_visible_index * args.item_h
            /\ (/\ args.num_items = 1000
                /\ args.item_h = 20
                /\ args.rect_h = 200
                /\ hidden_extent = 140)
               => /\ item_idx_range = [start |-> 7, end |-> 18]
                  /\ items.first_item_margin = 140

C2_Witness ==
    /\ OnlyVisibleFrame
    /\ args = ScenarioOnlyVisible
    /\ item_idx_range = [start |-> 7, end |-> 18]
    /\ Len(yielded) = 11
    /\ returned_none

\* Item i, which lies [i * item_height, (i + 1) * item_height) below the trigger's
\* top, overlaps the viewport, which lies [hidden_extent, hidden_extent +
\* viewport_height) below it.
OverlapsViewport(i) ==
    LET hidden_extent == args.trigger_top - args.rect_top
        item_top == i * args.item_h
        item_bottom == (i + 1) * args.item_h
    IN  Max(item_top, hidden_extent) < Min(item_bottom, hidden_extent + args.rect_h)

\* C3 (as stated): in mode OnlyVisible with hidden_extent >= 0, every index
\* i < item_count whose item overlaps the viewport's vertical extent is in the
\* visible range: there is no visible gap.
C3_NoVisibleGap ==
    (OnlyVisibleFrame /\ args.trigger_top - args.rect_top >= 0) =>
        \A i \in 0..(args.num_items - 1) :
            OverlapsViewport(i) => (item_idx_range.start <= i /\ i < item_idx_range.end)

\* C4: in mode All, whatever the viewport and the scroll position, the range is
\* exactly [0, item_count), the margin is 0 and the cursor yields exactly
\* item_count items.
C4_AllItems ==
    AllFrame =>
        /\ item_idx_range = [start |-> 0, end |-> args.num_items]
        /\ items.first_item_margin = 0
        /\ Len(yielded) <= args.num_items
        /\ returned_none => Len(yielded) = args.num_items
        /\ \A k \in 1..Len(yielded) : yielded[k].i = k - 1

C4_Witness ==
    /\ AllFrame
    /\ args = ScenarioAll
    /\ returned_none
    /\ Len(yielded) = 5

\* What C5 says of one state: the items yielded so far are those of the first
\* indices of the range, in ascending order from range.start, and when a call
\* has returned None there is one item for each index of the range.
YieldedInOrder ==
    /\ \A k \in 1..Len(yielded) : yielded[k].i = item_idx_range.start + k - 1
    /\ Len(yielded) <= RangeLen(item_idx_range)
    /\ returned_none => Len(yielded) = RangeLen(item_idx_range)

\* C5: within one frame the calls of next yield exactly one Item for each index
\* of the visible range, in strictly ascending order from range.start, then no
\* item; once a call has returned no item, every later call of the frame
\* returns no item either.
C5_SinglePass ==
    [][/\ YieldedInOrder
       /\ YieldedInOrder'
       /\ (returned_none /\ returned_none') => yielded' = yielded]_vars

C5_Witness ==
    /\ returned_none
    /\ item_idx_range.start = 1
    /\ Len(yielded) = 2
    /\ Len(state.item_indices) > 2
    /\ items.next_item_indices_index > 2

\* C6: within one frame the first Item yielded has last_idx None, and every
\* later one has last_idx equal to the widget_idx of the Item yielded just
\* before it.
C6_PredecessorChain ==
    \A k \in 1..Len(yielded) :
        yielded[k].last_idx = IF k = 1 THEN None ELSE Some(yielded[k - 1].widget_idx)

C6_Witness == Len(yielded) >= 3 /\ returned_none

\* C7: the k-th item yielded in any frame carries item_indices[k]; so when the
\* visible range has grown from one frame to the next, the indices yielded in
\* the second frame start with those yielded in the first, position by position.
C7_SlotStability ==
    \A k \in 1..Len(yielded) :
        /\ k <= Len(state.item_indices)
        /\ yielded[k].widget_idx = state.item_indices[k]
        /\ k <= Len(last_frame.idxs) => yielded[k].widget_idx = last_frame.idxs[k]

C7_Witness ==
    /\ last_frame.range_len >= 1
    /\ Len(last_frame.idxs) = last_frame.range_len
    /\ RangeLen(item_idx_range) > last_frame.range_len
    /\ Len(yielded) = RangeLen(item_idx_range)

\* C8 (as stated): over any sequence of frames, an index that has been yielded
\* for logical index i is never yielded for another logical index later.
C8_OneLogicalIndexPerSlot ==
    \A k \in 1..Len(yielded) :
        yielded[k].widget_idx \in DOMAIN first_of
            => first_of[yielded[k].widget_idx].i = yielded[k].i

\* C8 (amended): an index that has been yielded as the k-th item of a frame is
\* in every later frame yielded only as the k-th item, for the logical index
\* range.start + k - 1 of that frame; so it is yielded for the logical index
\* of its first yield whenever the range starts where it started then.
C8_OnePositionPerSlot ==
    \A k \in 1..Len(yielded) :
        yielded[k].widget_idx \in DOMAIN first_of =>
            LET first == first_of[yielded[k].widget_idx] IN
            /\ first.pos = k
            /\ yielded[k].i = item_idx_range.start + first.pos - 1
            /\ item_idx_range.start = first.i - (first.pos - 1)
                   => yielded[k].i = first.i

C8_Witness ==
    /\ Len(yielded) >= 2
    /\ \A k \in 1..Len(yielded) :
           /\ yielded[k].widget_idx \in DOMAIN first_of
           /\ first_of[yielded[k].widget_idx].i # yielded[k].i
           /\ first_of[yielded[k].widget_idx].pos = k

\* C9: after every completed frame item_indices is at least as long as the
\* largest range of any frame so far, so the cursor never runs out of indices
\* before the range is exhausted.
C9_EnoughIndices ==
    pc = "frame" =>
        /\ Len(state.item_indices) >= max_range_len
        /\ max_range_len >= RangeLen(item_idx_range)
        /\ RangeLen(items.item_indices) > 0
               => IsSome(NextNodeIndex(state.item_indices,
                                       items.next_item_indices_index))

C9_Witness ==
    /\ pc = "frame"
    /\ max_range_len >= 3
    /\ RangeLen(item_idx_range) = 1
    /\ Len(yielded) = 1
    /\ returned_none

\* C10: item_indices is append-only: its value before a step is a prefix of its
\* value after it, and a frame appends exactly max(0, range.len - old length)
\* indices, which leaves it max(old length, range.len) long (no other step
\* changes it, and by then it is no shorter than the frame's range).
C10_AppendOnly ==
    [][/\ IsPrefix(state.item_indices, state.item_indices')
       /\ Len(state.item_indices')
              = Max(Len(state.item_indices), RangeLen(item_idx_range'))]_vars

\* Indices generated in two different frames: the scrollbar's lies between them.
C10_Witness ==
    LET v == state.item_indices IN
    /\ Len(v) >= 3
    /\ v[Len(v)] - v[1] > Len(v) - 1

\* C11: an update whose item height is not greater than zero never completes a
\* frame; it ends in the panic of the assertion, and that step sets no trigger,
\* computes no range, allocates no index, leaves the State as it was and
\* returns no Items and no Scrollbar.
C11_ItemHeightAssert ==
    [][/\ pc' = "frame" /\ (args' # args \/ yielded' = <<>>)
            => ItemHeightOk(args'.item_h)
       /\ pc' = "panicked" /\ ~ItemHeightOk(args'.item_h)
            => UNCHANGED <<state, next_node_index, scroll_trigger, item_idx_range,
                           items, scrollbar, yielded>>]_vars

C11_Witness ==
    /\ pc = "panicked"
    /\ args.item_h < 0
    /\ items # None
    /\ Len(state.item_indices) > 1

\* C12: in a frame of mode OnlyVisible whose trigger rectangle the Ui cannot
\* resolve, update does not panic: it completes the frame with an empty range,
\* so that the Items yield nothing.
C12_UnresolvedTriggerNoCrash ==
    /\ pc # "new"
    /\ ItemHeightOk(args.item_h)
    /\ args.item_instantiation = "OnlyVisible"
    /\ ~IsSome(RectOfTrigger(args))
    => /\ pc = "frame"
       /\ RangeLen(item_idx_range) = 0
       /\ yielded = <<>>

\* C13: a completed update returns a Scrollbar exactly when the configured
\* position is NextTo or OnTop, whether or not the list is scrollable; with no
\* position configured it returns none.  The returned scrollbar never hides
\* itself for NextTo and hides itself for OnTop.
C13_ScrollbarIffPositioned ==
    pc = "frame" =>
        /\ IsSome(scrollbar) <=> args.scrollbar_position \in {"NextTo", "OnTop"}
        /\ args.scrollbar_position = "None" => scrollbar = None
        /\ args.scrollbar_position = "NextTo" => ~Unwrap(scrollbar).auto_hide
        /\ args.scrollbar_position = "OnTop" => Unwrap(scrollbar).auto_hide

C13_Witness ==
    /\ pc = "frame"
    /\ args.scrollbar_position = "NextTo"
    /\ ~IsScrollable(args.maybe_y_scroll_state)
    /\ IsSome(scrollbar)
    /\ ~Unwrap(scrollbar).auto_hide

\* C14, as stated: the returned scrollbar is floating exactly when the
\* configured position is OnTop, whatever the list's own floating state was.
C14_FloatingIffOnTop ==
    pc = "frame" /\ IsSome(scrollbar) =>
        (Unwrap(scrollbar).floating <=> args.scrollbar_position = "OnTop")

\* C14, amended: the returned scrollbar is floating exactly when the list was
\* itself floating in the previous frame, whatever the configured position.
C14_FloatingFollowsList ==
    pc = "frame" /\ IsSome(scrollbar) =>
        (Unwrap(scrollbar).floating <=> args.prev_floating)

C14_Witness ==
    /\ pc = "frame"
    /\ args.scrollbar_position = "NextTo"
    /\ args.prev_floating
    /\ IsSome(scrollbar)
    /\ Unwrap(scrollbar).floating

\* C15: every item of a frame is as wide as the viewport less the scrollbar's
\* thickness when the position is NextTo and the list is scrollable, and as
\* wide as the viewport in every other case, also with NextTo, where a
\* scrollbar is returned all the same.
C15_ItemWidth ==
    pc = "frame" =>
        LET active == /\ IsSome(args.maybe_y_scroll_state)
                      /\ Unwrap(args.maybe_y_scroll_state) < 0
            reduced == args.scrollbar_position = "NextTo" /\ active
            w == IF reduced THEN args.rect_w - Unwrap(scrollbar).thickness
                 ELSE args.rect_w
        IN  /\ items.item_w = w
            /\ \A k \in 1..Len(yielded) : yielded[k].w = w
            /\ args.scrollbar_position = "NextTo" => IsSome(scrollbar)
            /\ IsSome(scrollbar) => Unwrap(scrollbar).thickness > 0

C15_Witness ==
    /\ pc = "frame"
    /\ args.scrollbar_position = "NextTo"
    /\ IsScrollable(args.maybe_y_scroll_state)
    /\ Len(yielded) = 2
    /\ yielded[2].w = args.rect_w - 6

\* C16: when the yielded items are set in the order of their yield, the top of
\* each item that follows another lies exactly one item height below the top
\* of the item before it.
C16_ItemPitch ==
    pc = "frame" =>
        \A k \in 1..Len(placed) :
            k > 1 => placed[k - 1].top - placed[k].top = args.item_h

C16_Witness ==
    /\ pc = "frame"
    /\ args.item_instantiation = "OnlyVisible"
    /\ args.item_h = 3
    /\ Len(placed) = 3
    /\ yielded[1].i = 2

\* C20: in both modes, when the yielded items are set in the order of their
\* yield, the top of the item with logical index i lies exactly i item heights
\* below the top of the trigger.
C20_ItemOffset ==
    pc = "frame" =>
        \A k \in 1..Len(placed) :
            /\ placed[k].idx = yielded[k].widget_idx
            /\ args.trigger_top - placed[k].top = yielded[k].i * args.item_h

C20_Witness ==
    /\ pc = "frame"
    /\ args.item_instantiation = "OnlyVisible"
    /\ args.item_h = 4
    /\ args.trigger_top - args.rect_top = 6
    /\ Len(placed) = 2
    /\ yielded[2].i = 2
    /\ args.trigger_top - placed[2].top = 8

\* C17: an update of a list without items, with a positive item height, in
\* either mode completes the frame without a panic; its range is empty, no
\* index is allocated for an item and the Items yield nothing.
C17_EmptyList ==
    /\ pc # "new"
    /\ args.num_items = 0
    /\ ItemHeightOk(args.item_h)
    => /\ pc = "frame"
       /\ RangeLen(item_idx_range) = 0
       /\ state.item_indices = <<>>
       /\ yielded = <<>>

\* C18: the trigger's slot and the scrollbar's slot are each filled at most
\* once: an index once in a slot stays there in every later frame, also over
\* frames without a scrollbar, and every frame's trigger, Items and Scrollbar
\* carry the index of their slot.
C18_SlotsAllocatedOnce ==
    [][/\ IsSome(state.scroll_trigger_idx)
            => state'.scroll_trigger_idx = state.scroll_trigger_idx
       /\ IsSome(state.scrollbar_idx)
            => state'.scrollbar_idx = state.scrollbar_idx
       /\ pc' = "frame"
            => /\ Some(Unwrap(scroll_trigger').idx) = state'.scroll_trigger_idx
               /\ Some(items'.scroll_trigger_idx) = state'.scroll_trigger_idx
               /\ \A k \in 1..Len(yielded') :
                      Some(yielded'[k].scroll_trigger_idx) = state'.scroll_trigger_idx
               /\ IsSome(scrollbar')
                      => Some(Unwrap(scrollbar').idx) = state'.scrollbar_idx]_vars

C18_Witness ==
    /\ pc = "frame"
    /\ IsSome(scrollbar)
    /\ Len(state.item_indices) > 1
    /\ state.item_indices[1] < Unwrap(scrollbar).idx
    /\ Unwrap(scrollbar).idx < state.item_indices[2]

\* C19: the indices in item_indices are pairwise distinct and none of them is
\* the trigger's or the scrollbar's index; within a frame no two yielded Items
\* have the same widget index, and no Item's last_idx is its own widget index.
C19_DistinctIndices ==
    LET ids == state.item_indices IN
    /\ \A j, k \in 1..Len(ids) : j # k => ids[j] # ids[k]
    /\ \A k \in 1..Len(ids) :
          /\ Some(ids[k]) # state.scroll_trigger_idx
          /\ Some(ids[k]) # state.scrollbar_idx
    /\ \A j, k \in 1..Len(yielded) :
          j # k => yielded[j].widget_idx # yielded[k].widget_idx
    /\ \A k \in 1..Len(yielded) : yielded[k].last_idx # Some(yielded[k].widget_idx)

C19_Witness ==
    /\ pc = "frame"
    /\ Len(state.item_indices) = 3
    /\ IsSome(state.scrollbar_idx)
    /\ Unwrap(state.scrollbar_idx) < state.item_indices[3]
    /\ Len(yielded) = 3

====
